---- MODULE Spec2Model ----
(***************************************************************************)
(* Model of the password generator: PasswordGenerator                      *)
(* (src/password_generator.py) and AdvancedPasswordGenerator               *)
(* (src/advanced_generator.py).                                            *)
(*                                                                         *)
(* A Python str is a sequence of one-character strings; a list of str is a *)
(* sequence of such sequences.  One behaviour is one call on a generator   *)
(* object (SpecShared: a sequence of calls on one generator): Init draws   *)
(* the call's arguments, the action of the called method runs the whole    *)
(* method body, drawing the outcomes of the secure                         *)
(* randomness source (secrets.choice, secrets.randbelow,                   *)
(* SystemRandom.shuffle, SystemRandom.sample) with \E.                     *)
(***************************************************************************)
EXTENDS Integers, Sequences, FiniteSets, TLC

VARIABLES
  character_sets,    \* self.character_sets, the generator's only field
  calls_made,        \* the number of calls this generator completed earlier
  output_text,       \* the lines shown in the window's output area
  strength_text,     \* the strength analysis shown (<<>> when cleared)
  messagebox,        \* the error dialog shown (<<>> when none)
  call,              \* the method called and its arguments
  pc,                \* "ready": called, not yet run; "done": returned or raised
  outcome,           \* "none", "returned", or the exception class raised
  message,           \* the exception's message ("" when none)
  ret,               \* the returned value (<<>> when nothing was returned)
  remaining_length   \* generate_password's local remaining_length (0 until set)

\* the window's widgets that a handler writes
gui == <<output_text, strength_text, messagebox>>

vars == <<character_sets, calls_made, gui, call, pc, outcome, message, ret,
          remaining_length>>

----------------------------------------------------------------------------
(* Bounds of the model *)

\* small lengths 0..MaxLen are explored with every outcome of the draws
MaxLen == 4
\* each category alphabet is cut to its first AlphabetSize characters
AlphabetSize == 2
\* for a length above MaxLen the fill draws and the shuffle are cut to
\* LongDraws outcomes (a constant fill stream, a rotation)
LongDraws == 2
\* patterns of up to MaxPattern characters
MaxPattern == 3
\* custom word lists of up to MaxList entries over the first VocabSize words
MaxList == 2
VocabSize == 2
\* passphrase word counts 0..MaxWords (and one above the default list's size)
MaxWords == 2
\* memorable passwords of 0..MaxSegments word segments
MaxSegments == 1
\* syllable draws are cut to the first SyllableSpan entries and the last one
SyllableSpan == 1
\* suffix draws are cut to the lowest SuffixDraws values and the highest one
SuffixDraws == 2

\* generate_multiple_passwords is called with counts up to MaxCount with
\* every list of results; a longer list is cut to one result repeated
MaxCount == 2
\* a shared generator serves up to MaxCalls calls after its first one
MaxCalls == 3
\* the strength estimators are applied to strings of 0..MaxStrengthLen
\* characters
MaxStrengthLen == 21

(* Program constants *)

\* if length < 4: raise ValueError
MIN_LENGTH == 4
\* help='Password length (default: 16, min: 8, max: 128)'
MAX_LENGTH == 128
\* str(secrets.randbelow(90) + 10)
SuffixBelow == 90
SuffixOffset == 10

----------------------------------------------------------------------------
(* Python's string constants *)

ascii_lowercase ==
  <<
    "a", "b", "c", "d", "e", "f", "g", "h", "i", "j", "k", "l", "m",
    "n", "o", "p", "q", "r", "s", "t", "u", "v", "w", "x", "y", "z"
  >>

ascii_uppercase ==
  <<
    "A", "B", "C", "D", "E", "F", "G", "H", "I", "J", "K", "L", "M",
    "N", "O", "P", "Q", "R", "S", "T", "U", "V", "W", "X", "Y", "Z"
  >>

digits ==
  <<
    "0", "1", "2", "3", "4", "5", "6", "7", "8", "9"
  >>

\* string.punctuation; its 28th character, the grave accent, cannot be
\* written in a TLA+ string and is named instead
punctuation ==
  <<
    "!", "\"", "#", "$", "%", "&", "'", "(", ")", "*", "+", ",", "-",
    ".", "/", ":", ";", "<", "=", ">", "?", "@", "[", "\\", "]", "^",
    "_", "grave", "{", "|", "}", "~"
  >>

\* the syllable table of generate_memorable_password
syllables ==
  <<
    <<"b", "a">>, <<"b", "e">>, <<"b", "i">>, <<"b", "o">>, <<"b", "u">>,
    <<"c", "a">>, <<"c", "e">>, <<"c", "i">>, <<"c", "o">>, <<"c", "u">>,
    <<"d", "a">>, <<"d", "e">>, <<"d", "i">>, <<"d", "o">>, <<"d", "u">>,
    <<"f", "a">>, <<"f", "e">>, <<"f", "i">>, <<"f", "o">>, <<"f", "u">>,
    <<"g", "a">>, <<"g", "e">>, <<"g", "i">>, <<"g", "o">>, <<"g", "u">>,
    <<"h", "a">>, <<"h", "e">>, <<"h", "i">>, <<"h", "o">>, <<"h", "u">>,
    <<"j", "a">>, <<"j", "e">>, <<"j", "i">>, <<"j", "o">>, <<"j", "u">>,
    <<"k", "a">>, <<"k", "e">>, <<"k", "i">>, <<"k", "o">>, <<"k", "u">>,
    <<"l", "a">>, <<"l", "e">>, <<"l", "i">>, <<"l", "o">>, <<"l", "u">>,
    <<"m", "a">>, <<"m", "e">>, <<"m", "i">>, <<"m", "o">>, <<"m", "u">>,
    <<"n", "a">>, <<"n", "e">>, <<"n", "i">>, <<"n", "o">>, <<"n", "u">>,
    <<"p", "a">>, <<"p", "e">>, <<"p", "i">>, <<"p", "o">>, <<"p", "u">>,
    <<"r", "a">>, <<"r", "e">>, <<"r", "i">>, <<"r", "o">>, <<"r", "u">>,
    <<"s", "a">>, <<"s", "e">>, <<"s", "i">>, <<"s", "o">>, <<"s", "u">>,
    <<"t", "a">>, <<"t", "e">>, <<"t", "i">>, <<"t", "o">>, <<"t", "u">>,
    <<"v", "a">>, <<"v", "e">>, <<"v", "i">>, <<"v", "o">>, <<"v", "u">>,
    <<"z", "a">>, <<"z", "e">>, <<"z", "i">>, <<"z", "o">>, <<"z", "u">>,
    <<"c", "h", "a">>, <<"c", "h", "e">>, <<"c", "h", "i">>, <<"c", "h", "o">>, <<"c", "h", "u">>,
    <<"s", "h", "a">>, <<"s", "h", "e">>, <<"s", "h", "i">>, <<"s", "h", "o">>, <<"s", "h", "u">>,
    <<"t", "h", "a">>, <<"t", "h", "e">>, <<"t", "h", "i">>, <<"t", "h", "o">>, <<"t", "h", "u">>
  >>

\* the default word list of generate_passphrase
default_word_list ==
  <<
    <<"a", "p", "p", "l", "e">>, <<"r", "i", "v", "e", "r">>,
    <<"m", "o", "u", "n", "t", "a", "i", "n">>, <<"s", "u", "n", "s", "h", "i", "n", "e">>,
    <<"w", "h", "i", "s", "p", "e", "r">>, <<"c", "r", "y", "s", "t", "a", "l">>,
    <<"f", "o", "r", "e", "s", "t">>, <<"o", "c", "e", "a", "n">>,
    <<"b", "u", "t", "t", "e", "r", "f", "l", "y">>, <<"t", "h", "u", "n", "d", "e", "r">>,
    <<"s", "i", "l", "e", "n", "c", "e">>, <<"j", "o", "u", "r", "n", "e", "y">>,
    <<"g", "a", "r", "d", "e", "n">>, <<"m", "i", "r", "r", "o", "r">>,
    <<"s", "h", "a", "d", "o", "w">>, <<"d", "i", "a", "m", "o", "n", "d">>,
    <<"f", "r", "e", "e", "d", "o", "m">>, <<"h", "a", "r", "m", "o", "n", "y">>,
    <<"v", "i", "c", "t", "o", "r", "y">>, <<"w", "o", "n", "d", "e", "r">>,
    <<"c", "o", "u", "r", "a", "g", "e">>, <<"p", "a", "s", "s", "i", "o", "n">>,
    <<"m", "y", "s", "t", "e", "r", "y">>, <<"t", "r", "e", "a", "s", "u", "r", "e">>,
    <<"h", "o", "r", "i", "z", "o", "n">>, <<"m", "e", "l", "o", "d", "y">>,
    <<"t", "w", "i", "l", "i", "g", "h", "t">>, <<"d", "e", "s", "t", "i", "n", "y">>,
    <<"i", "n", "f", "i", "n", "i", "t", "y">>, <<"u", "n", "i", "v", "e", "r", "s", "e">>
  >>

Range(s) == {s[i] : i \in DOMAIN s}

Min(a, b) == IF a < b THEN a ELSE b

\* the first AlphabetSize characters of an alphabet
Cut(alphabet) == SubSeq(alphabet, 1, Min(AlphabetSize, Len(alphabet)))

\* the category keys, in the order the code tests them
Categories == <<"lowercase", "uppercase", "digits", "symbols">>

CategorySet == Range(Categories)

\* PasswordGenerator.__init__
InitialCharacterSets ==
  [lowercase |-> Cut(ascii_lowercase),
   uppercase |-> Cut(ascii_uppercase),
   digits |-> Cut(digits),
   symbols |-> Cut(punctuation)]

----------------------------------------------------------------------------
(* str and list helpers *)

\* separator.join(items): the items' characters with the separator between
\* (joined by halves, which keeps the recursion shallow for long lists)
RECURSIVE Join(_, _)
Join(separator, items) ==
  IF items = <<>> THEN <<>>
  ELSE IF Len(items) = 1 THEN items[1]
  ELSE LET h == Len(items) \div 2
       IN  Join(separator, SubSeq(items, 1, h)) \o separator \o
           Join(separator, SubSeq(items, h + 1, Len(items)))

\* secrets.choice(seq) of a list, with the draw r = randbelow(len(seq))
Choice(seq, r) == seq[r + 1]

\* secrets.choice(s) of a str: the one-character str at the drawn index
ChoiceChar(s, r) == <<s[r + 1]>>

\* w is a prefix of s
IsPrefix(w, s) == Len(w) <= Len(s) /\ SubSeq(s, 1, Len(w)) = w

\* s without its first n characters
Drop(s, n) == SubSeq(s, n + 1, Len(s))

\* str.upper and str.lower of one character
Upper(c) ==
  IF \E i \in DOMAIN ascii_lowercase : ascii_lowercase[i] = c
  THEN ascii_uppercase[CHOOSE i \in DOMAIN ascii_lowercase : ascii_lowercase[i] = c]
  ELSE c

Lower(c) ==
  IF \E i \in DOMAIN ascii_uppercase : ascii_uppercase[i] = c
  THEN ascii_lowercase[CHOOSE i \in DOMAIN ascii_uppercase : ascii_uppercase[i] = c]
  ELSE c

\* str(n) of an integer n >= 0: its decimal digits
RECURSIVE Str(_)
Str(n) ==
  IF n < 10 THEN <<digits[n + 1]>>
  ELSE Str(n \div 10) \o <<digits[(n % 10) + 1]>>

\* raise exc(msg): the call ends without a return value
Raise(exc, msg) ==
  /\ pc' = "done"
  /\ outcome' = exc
  /\ message' = msg
  /\ ret' = <<>>

\* return value
Return(value) ==
  /\ pc' = "done"
  /\ outcome' = "returned"
  /\ message' = ""
  /\ ret' = value

----------------------------------------------------------------------------
(* The calls explored *)

NoWordList == [given |-> FALSE, items |-> <<>>]

\* a call record with every argument at a neutral value
BlankCall ==
  [op |-> "", length |-> 0, options |-> <<>>, pattern |-> <<>>,
   word_list |-> NoWordList, word_count |-> 0, separator |-> <<>>,
   capitalize |-> FALSE, password |-> <<>>, count |-> 0]

\* lengths 0..MaxLen, and one above the documented maximum
Lengths == (0 .. MaxLen) \cup {MAX_LENGTH + 1}

\* **options: every full dict of flags, the empty dict, and every dict that
\* switches all categories but one off (the absent keys take their default)
OptionInputs ==
  [CategorySet -> BOOLEAN] \cup {<<>>} \cup
  {[d \in CategorySet \ {c} |-> FALSE] : c \in CategorySet}

PasswordCalls ==
  {[BlankCall EXCEPT !.op = "generate_password", !.length = l, !.options = o] :
     l \in Lengths, o \in OptionInputs}

\* separators: the two defaults (' ' and '-') and the empty str
Separators == {<<" ">>, <<"-">>, <<>>}

MemorableSeparators == {<<"-">>, <<>>}

\* custom word lists: up to MaxList entries, repeats allowed, over the first
\* VocabSize words of the default list
Vocabulary == Range(SubSeq(default_word_list, 1, VocabSize))

WordLists ==
  {NoWordList} \cup
  {[given |-> TRUE, items |-> l] :
     l \in UNION {[1 .. n -> Vocabulary] : n \in 0 .. MaxList}}

WordCounts == (0 .. MaxWords) \cup {Len(default_word_list) + 1}

PassphraseCalls ==
  {[BlankCall EXCEPT !.op = "generate_passphrase", !.word_list = w,
                     !.word_count = k, !.separator = sep] :
     w \in WordLists, k \in WordCounts, sep \in Separators}

\* pattern characters: the four codes and one character that is no code
PatternCodes == {"l", "u", "d", "s", "x"}

DefaultPattern == <<"l", "l", "l", "d", "d", "s", "s">>

PatternCalls ==
  {[BlankCall EXCEPT !.op = "generate_pattern_password", !.pattern = pat] :
     pat \in {DefaultPattern} \cup
             UNION {[1 .. n -> PatternCodes] : n \in 0 .. MaxPattern}}

MemorableCalls ==
  {[BlankCall EXCEPT !.op = "generate_memorable_password", !.word_count = k,
                     !.separator = sep, !.capitalize = cap] :
     k \in 0 .. MaxSegments, sep \in MemorableSeparators, cap \in BOOLEAN}

----------------------------------------------------------------------------
(* PasswordGenerator.generate_password *)

LengthErrorMessage == "Password length must be at least 4 characters"

PoolErrorMessage == "At least one character set must be selected"

\* if length < 4
LengthTooShort_OffByOne(length) == length < MIN_LENGTH - 1

LengthTooShort(length) == length < MIN_LENGTH

\* options.get(key, default)
OptionGet(options, key, default) ==
  IF key \in DOMAIN options THEN options[key] ELSE default

\* use_lowercase, use_uppercase, use_digits, use_symbols
UseFlags(options) == [c \in CategorySet |-> OptionGet(options, c, TRUE)]

\* char_pool: the selected alphabets, concatenated in the fixed order
CharPool_DropsSymbols(sets, use) ==
  (IF use.lowercase THEN sets.lowercase ELSE <<>>) \o
  (IF use.uppercase THEN sets.uppercase ELSE <<>>) \o
  (IF use.digits THEN sets.digits ELSE <<>>)

CharPool_AlwaysSymbols(sets, use) ==
  (IF use.lowercase THEN sets.lowercase ELSE <<>>) \o
  (IF use.uppercase THEN sets.uppercase ELSE <<>>) \o
  (IF use.digits THEN sets.digits ELSE <<>>) \o
  sets.symbols

CharPool(sets, use) ==
  (IF use.lowercase THEN sets.lowercase ELSE <<>>) \o
  (IF use.uppercase THEN sets.uppercase ELSE <<>>) \o
  (IF use.digits THEN sets.digits ELSE <<>>) \o
  (IF use.symbols THEN sets.symbols ELSE <<>>)

\* the categories whose "if use_...:" branch of the guaranteed draws runs
Selected(use) == SelectSeq(Categories, LAMBDA c : use[c])

\* the draws of the guaranteed secrets.choice calls, one per selected category
GuaranteedDraws(sets, use) ==
  LET sel == Selected(use)
  IN  {g \in [1 .. Len(sel) -> 0 .. (AlphabetSize - 1)] :
         \A k \in 1 .. Len(sel) : g[k] < Len(sets[sel[k]])}

\* password_chars after the guaranteed draws: one character of each selected
\* category's own alphabet
GuaranteedChars_FromFirstSet(sets, use, g) ==
  LET sel == Selected(use)
  IN  [k \in 1 .. Len(sel) |-> ChoiceChar(sets[sel[1]], g[k])]

GuaranteedChars(sets, use, g) ==
  LET sel == Selected(use)
  IN  [k \in 1 .. Len(sel) |-> ChoiceChar(sets[sel[k]], g[k])]

\* remaining_length = length - len(password_chars)
RemainingLength_IgnoresGuaranteed(length, password_chars) == length

RemainingLength(length, password_chars) == length - Len(password_chars)

\* the draws of the fill loop: range(n) runs Max(n, 0) times
FillDraws(n, poolLen) ==
  IF n <= 0 THEN {<<>>}
  ELSE IF n <= MaxLen THEN [1 .. n -> 0 .. (poolLen - 1)]
  ELSE {[i \in 1 .. n |-> c] : c \in 0 .. (Min(poolLen, LongDraws) - 1)}

\* the characters the fill loop appends
FillChars(char_pool, f) == [i \in 1 .. Len(f) |-> ChoiceChar(char_pool, f[i])]

\* the orders SystemRandom().shuffle can leave n items in: p[i] is the old
\* position of the item that ends at position i
ShufflePerms(n) ==
  IF n <= MaxLen THEN Permutations(1 .. n)
  ELSE {[i \in 1 .. n |-> ((i - 1 + c) % n) + 1] : c \in 0 .. (LongDraws - 1)}

Shuffle(x, p) == [i \in 1 .. Len(x) |-> x[p[i]]]

GeneratePassword ==
  /\ pc = "ready"
  /\ call.op = "generate_password"
  /\ UNCHANGED <<character_sets, calls_made, gui, call>>
  /\ LET length == call.length
         use == UseFlags(call.options)
         char_pool == CharPool(character_sets, use)
     IN  IF LengthTooShort(length)
         THEN /\ Raise("ValueError", LengthErrorMessage)
              /\ UNCHANGED remaining_length
         ELSE IF char_pool = <<>>
         THEN /\ Raise("ValueError", PoolErrorMessage)
              /\ UNCHANGED remaining_length
         ELSE \E g \in GuaranteedDraws(character_sets, use) :
                LET guaranteed == GuaranteedChars(character_sets, use, g)
                    remaining == RemainingLength(length, guaranteed)
                IN  \E f \in FillDraws(remaining, Len(char_pool)) :
                      LET password_chars == guaranteed \o FillChars(char_pool, f)
                      IN  \E p \in ShufflePerms(Len(password_chars)) :
                            /\ Return(Join(<<>>, Shuffle(password_chars, p)))
                            /\ remaining_length' = remaining

----------------------------------------------------------------------------
(* PasswordGenerator.generate_multiple_passwords *)

\* the shortest length whose fill is longer than MaxLen whatever is selected
LongLength == MaxLen + MIN_LENGTH + 1

\* the flags of the 'weak' profile (lowercase and digits), and no category
MultiOptions ==
  {[c \in CategorySet |-> c \in {"lowercase", "digits"}],
   [c \in CategorySet |-> FALSE]}

MultiCalls ==
  {[BlankCall EXCEPT !.op = "generate_multiple_passwords", !.count = n,
                     !.length = l, !.options = o] :
     n \in (-1) .. MaxCount, l \in {MIN_LENGTH - 1, LongLength},
     o \in MultiOptions}

\* the strs one call generate_password(length, **options) may return, for a
\* length and a pool that pass its two checks
PasswordsReturned(sets, length, options) ==
  LET use == UseFlags(options)
      char_pool == CharPool(sets, use)
  IN  UNION {
        LET guaranteed == GuaranteedChars(sets, use, g)
            remaining == RemainingLength(length, guaranteed)
        IN  UNION {
              LET password_chars == guaranteed \o FillChars(char_pool, f)
              IN  {Join(<<>>, Shuffle(password_chars, p)) :
                     p \in ShufflePerms(Len(password_chars))} :
              f \in FillDraws(remaining, Len(char_pool))} :
        g \in GuaranteedDraws(sets, use)}

\* len(range(count)): the number of times the comprehension calls
\* generate_password
Iterations_OneShort(count) == IF count > 1 THEN count - 1 ELSE 0

Iterations(count) == IF count > 0 THEN count ELSE 0

\* the results of n calls in a row
ListDraws(n, results) ==
  IF n <= MaxCount THEN [1 .. n -> results]
  ELSE {[i \in 1 .. n |-> r] : r \in results}

\* return [self.generate_password(length, **options) for _ in range(count)]:
\* the first call that raises ends the comprehension, and every call checks
\* the same arguments
GenerateMultiplePasswords ==
  /\ pc = "ready"
  /\ call.op = "generate_multiple_passwords"
  /\ UNCHANGED <<character_sets, calls_made, gui, call, remaining_length>>
  /\ LET n == Iterations(call.count)
         length == call.length
         char_pool == CharPool(character_sets, UseFlags(call.options))
     IN  IF n = 0
         THEN Return(<<>>)
         ELSE IF LengthTooShort(length)
         THEN Raise("ValueError", LengthErrorMessage)
         ELSE IF char_pool = <<>>
         THEN Raise("ValueError", PoolErrorMessage)
         ELSE \E passwords \in
                  ListDraws(n, PasswordsReturned(character_sets, length,
                                                 call.options)) :
                Return(passwords)

\* what the call c of generate_password or generate_multiple_passwords can
\* end in on a generator with the alphabets sets: the exception raised and
\* its message, or the value returned
CallOutcomes(sets, c) ==
  LET pool == CharPool(sets, UseFlags(c.options))
      single == PasswordsReturned(sets, c.length, c.options)
  IN  IF c.op = "generate_multiple_passwords" /\ Iterations(c.count) = 0
      THEN {<<"returned", "", <<>> >>}
      ELSE IF LengthTooShort(c.length)
      THEN {<<"ValueError", LengthErrorMessage, <<>> >>}
      ELSE IF pool = <<>>
      THEN {<<"ValueError", PoolErrorMessage, <<>> >>}
      ELSE IF c.op = "generate_password"
      THEN {<<"returned", "", w>> : w \in single}
      ELSE {<<"returned", "", l>> : l \in ListDraws(Iterations(c.count), single)}

----------------------------------------------------------------------------
(* AdvancedPasswordGenerator.generate_memorable_password *)

\* the syllable indices secrets.choice(syllables) draws in this model
SyllableDraws == (0 .. (SyllableSpan - 1)) \cup {Len(syllables) - 1}

\* the draws of one word: syllable_count = secrets.choice([2, 3]) syllables
WordDraws == UNION {[1 .. n -> SyllableDraws] : n \in {2, 3}}

\* str.capitalize: the first character upper-cased, the others lower-cased
Capitalize(word) ==
  [i \in 1 .. Len(word) |-> IF i = 1 THEN Upper(word[i]) ELSE Lower(word[i])]

\* one pass of the loop body: the word built from the drawn syllables
MakeWord(d, capitalize) ==
  LET word == Join(<<>>, [i \in 1 .. Len(d) |-> Choice(syllables, d[i])])
  IN  IF capitalize THEN Capitalize(word) ELSE word

\* the draws r of secrets.randbelow(90) in this model
SuffixDrawSet == (0 .. (SuffixDraws - 1)) \cup {SuffixBelow - 1}

\* str(secrets.randbelow(90) + 10)
Suffix_NoOffset(r) == Str(r)

Suffix(r) == Str(r + SuffixOffset)

GenerateMemorablePassword ==
  /\ pc = "ready"
  /\ call.op = "generate_memorable_password"
  /\ UNCHANGED <<character_sets, calls_made, gui, call, remaining_length>>
  /\ \E d \in [1 .. call.word_count -> WordDraws], r \in SuffixDrawSet :
       LET words == [i \in 1 .. call.word_count |-> MakeWord(d[i], call.capitalize)]
       IN  Return(Join(call.separator, Append(words, Suffix(r))))

----------------------------------------------------------------------------
(* AdvancedPasswordGenerator.generate_pattern_password *)

\* the names bound in advanced_generator's module namespace: its imports and
\* its class
AdvancedGeneratorGlobals ==
  {"secrets", "List", "Optional", "PasswordGenerator", "AdvancedPasswordGenerator"}

\* char_map, once the name string resolves
CharMap ==
  [l |-> Cut(ascii_lowercase), u |-> Cut(ascii_uppercase),
   d |-> Cut(digits), s |-> Cut(punctuation)]

\* (a variant that reconfigures the generator's alphabets before it fails)
GeneratePatternPassword_Reconfigures ==
  /\ pc = "ready"
  /\ call.op = "generate_pattern_password"
  /\ character_sets' = [character_sets EXCEPT !.symbols = <<>>]
  /\ UNCHANGED <<calls_made, gui, call, remaining_length>>
  /\ Raise("NameError", "name 'string' is not defined")

GeneratePatternPassword ==
  /\ pc = "ready"
  /\ call.op = "generate_pattern_password"
  /\ UNCHANGED <<character_sets, calls_made, gui, call, remaining_length>>
  /\ LET pattern == call.pattern
     IN  IF "string" \notin AdvancedGeneratorGlobals
         THEN \* building char_map evaluates string.ascii_lowercase
              Raise("NameError", "name 'string' is not defined")
         ELSE IF \E i \in 1 .. Len(pattern) : pattern[i] \notin DOMAIN CharMap
         THEN \* the else branch calls self.configure_character_set, which
              \* neither class defines
              Raise("AttributeError",
                    "'AdvancedPasswordGenerator' object has no attribute 'configure_character_set'")
         ELSE \E d \in [1 .. Len(pattern) -> 0 .. (AlphabetSize - 1)] :
                Return(Join(<<>>, [i \in 1 .. Len(pattern) |->
                                     ChoiceChar(CharMap[pattern[i]], d[i])]))

----------------------------------------------------------------------------
(* AdvancedPasswordGenerator.generate_passphrase *)

WordsErrorMessage == "Word list too small for requested passphrase"

SampleErrorMessage == "Sample larger than population or is negative"

\* if len(word_list) < word_count
TooFewWords_ChecksDefaultList(word_list, word_count) ==
  Len(default_word_list) < word_count

TooFewWords(word_list, word_count) == Len(word_list) < word_count

\* the positions random.sample(population, k) can select, in selection order:
\* k distinct positions of a population of n
SamplePositions_WithReplacement(n, k) == [1 .. k -> 1 .. n]

SamplePositions(n, k) ==
  {pos \in [1 .. k -> 1 .. n] :
     \A i, j \in 1 .. k : i # j => pos[i] # pos[j]}

GeneratePassphrase ==
  /\ pc = "ready"
  /\ call.op = "generate_passphrase"
  /\ UNCHANGED <<character_sets, calls_made, gui, call, remaining_length>>
  /\ LET word_list == IF call.word_list.given THEN call.word_list.items
                      ELSE default_word_list
         word_count == call.word_count
     IN  IF TooFewWords(word_list, word_count)
         THEN Raise("ValueError", WordsErrorMessage)
         ELSE IF ~(0 <= word_count /\ word_count <= Len(word_list))
         THEN \* random.sample's own check
              Raise("ValueError", SampleErrorMessage)
         ELSE \E pos \in SamplePositions(Len(word_list), word_count) :
                LET words == [i \in 1 .. word_count |-> word_list[pos[i]]]
                IN  Return(Join(call.separator, words))

----------------------------------------------------------------------------
(* The strength estimators: get_password_strength (the boolean verdict the  *)
(* interfaces display) and the graded estimate                              *)

\* the str of n characters that cycles through the first character of each
\* selected category's alphabet
ClassCycle(use, n) ==
  LET sel == Selected(use)
  IN  [i \in 1 .. n |-> InitialCharacterSets[sel[((i - 1) % Len(sel)) + 1]][1]]

\* the strings whose strength the specification works out
ExamplePasswords ==
  { <<"a", "b", "c">>,
    <<"p", "a", "s", "s", "w", "o", "r", "d", "1", "2", "3">>,
    <<"P", "a", "s", "s", "w", "o", "r", "d", "1", "2", "3">>,
    <<"P", "@", "s", "s", "w", "0", "r", "d", "!", "2", "0", "2", "4">> }

\* the empty str, the examples, and for every selection of categories and
\* every length 1..MaxStrengthLen a str over exactly those categories
StrengthPasswords ==
  {<<>>} \cup ExamplePasswords \cup
  {ClassCycle(use, n) :
     use \in {u \in [CategorySet -> BOOLEAN] : \E c \in CategorySet : u[c]},
     n \in 1 .. MaxStrengthLen}

StrengthCalls ==
  {[BlankCall EXCEPT !.op = o, !.password = w] :
     o \in {"get_password_strength", "estimate"}, w \in StrengthPasswords}

\* membership of one character in the canonical alphabets
IsLower(c) == c \in Range(ascii_lowercase)
IsUpper(c) == c \in Range(ascii_uppercase)
IsDigit(c) == c \in Range(digits)
\* a symbol is a character that is not alphanumeric
IsSymbol(c) == ~(IsLower(c) \/ IsUpper(c) \/ IsDigit(c))

\* the four character-class presence flags of a str
ClassFlags(password) ==
  [has_lowercase |-> \E i \in DOMAIN password : IsLower(password[i]),
   has_uppercase |-> \E i \in DOMAIN password : IsUpper(password[i]),
   has_digits    |-> \E i \in DOMAIN password : IsDigit(password[i]),
   has_symbols   |-> \E i \in DOMAIN password : IsSymbol(password[i])]

\* the number of character classes that occur
ClassCount(flags) ==
  (IF flags.has_lowercase THEN 1 ELSE 0) + (IF flags.has_uppercase THEN 1 ELSE 0) +
  (IF flags.has_digits THEN 1 ELSE 0) + (IF flags.has_symbols THEN 1 ELSE 0)

\* is_strong = length >= 12 AND has_lower AND has_upper AND has_digit
IsStrong_AnyLength(password) ==
  LET f == ClassFlags(password)
  IN  f.has_lowercase /\ f.has_uppercase /\ f.has_digits

IsStrong(password) ==
  LET f == ClassFlags(password)
  IN  Len(password) >= 12 /\ f.has_lowercase /\ f.has_uppercase /\ f.has_digits

\* the graded label: the rows are tried from the top, the first match wins
GradedLabel_BottomUp(password) ==
  LET n == Len(password)
      k == ClassCount(ClassFlags(password))
  IN  IF n >= 8 /\ k >= 1 THEN "Weak"
      ELSE IF n >= 12 /\ k >= 2 THEN "Medium"
      ELSE IF n >= 16 /\ k >= 3 THEN "Strong"
      ELSE IF n >= 20 /\ k >= 4 THEN "Very Strong"
      ELSE "Very Weak"

GradedLabel(password) ==
  LET n == Len(password)
      k == ClassCount(ClassFlags(password))
  IN  IF n >= 20 /\ k >= 4 THEN "Very Strong"
      ELSE IF n >= 16 /\ k >= 3 THEN "Strong"
      ELSE IF n >= 12 /\ k >= 2 THEN "Medium"
      ELSE IF n >= 8 /\ k >= 1 THEN "Weak"
      ELSE "Very Weak"

\* strength = generator.get_password_strength(password): the dict whose keys
\* the interfaces read
GetPasswordStrength ==
  /\ pc = "ready"
  /\ call.op = "get_password_strength"
  /\ UNCHANGED <<character_sets, calls_made, gui, call, remaining_length>>
  /\ Return(ClassFlags(call.password) @@
            [is_strong |-> IsStrong(call.password)])

\* estimate(password): the graded label
EstimateStrength ==
  /\ pc = "ready"
  /\ call.op = "estimate"
  /\ UNCHANGED <<character_sets, calls_made, gui, call, remaining_length>>
  /\ Return(GradedLabel(call.password))

----------------------------------------------------------------------------
(* PasswordGeneratorGUI.generate_password, the handler of the window's      *)
(* Generate button                                                          *)

\* the length spinbox (8..128): two lengths whose fill is longer than MaxLen
GuiLengths == {LongLength, LongLength + 1}

\* the number-to-generate spinbox (1..20): 1, 2, the shortest length
\* generate_password accepts, and a number that is also in GuiLengths
GuiCounts == {1, 2, MIN_LENGTH, LongLength}

\* the four checkboxes: all ticked (the default), lowercase and digits only,
\* none ticked.  The custom characters field is left empty.
GuiSelections ==
  {[c \in CategorySet |-> TRUE]} \cup MultiOptions

GuiCalls ==
  {[BlankCall EXCEPT !.op = "gui_generate_password", !.length = l,
                     !.count = n, !.options = o] :
     l \in GuiLengths, n \in GuiCounts, o \in GuiSelections}

\* get_character_types(): the ticked types, in the order of the checkboxes
GetCharacterTypes(ticked) == SelectSeq(Categories, LAMBDA c : ticked[c])

\* self.generator.set_character_set(char_types): the generator draws from
\* the alphabets of the types in char_types from then on
SetCharacterSet(char_types) ==
  [c \in CategorySet |-> c \in Range(char_types)]

\* messagebox.showerror("Error", text)
ShowError(text) == messagebox' = [title |-> "Error", text |-> text]

\* f"{i+1}. {pwd}" for i, pwd in enumerate(passwords)
NumberedLines(passwords) ==
  [k \in 1 .. Len(passwords) |-> Str(k) \o <<".", " ">> \o passwords[k]]

\* the arguments of the call on line 124, generate_multiple_passwords(length,
\* count), bound as the signature (self, count, length) binds them
MultipleCallOfGui(length, count, config) ==
  [BlankCall EXCEPT !.op = "generate_multiple_passwords", !.count = length,
                    !.length = count, !.options = config]

GuiGeneratePassword ==
  /\ pc = "ready"
  /\ call.op = "gui_generate_password"
  /\ character_sets' = InitialCharacterSets   \* self.generator = PasswordGenerator()
  /\ UNCHANGED <<calls_made, call, remaining_length>>
  /\ Return(<<>>)
  /\ LET char_types == GetCharacterTypes(call.options)
         config == SetCharacterSet(char_types)
         length == call.length
         count == call.count
         single == [BlankCall EXCEPT !.op = "generate_password",
                                     !.length = length, !.options = config]
     IN  IF char_types = <<>>
         THEN /\ ShowError("Please select at least one character set")
              /\ UNCHANGED <<output_text, strength_text>>
         ELSE \E o \in CallOutcomes(character_sets',
                                     IF count = 1 THEN single
                                     ELSE MultipleCallOfGui(length, count, config)) :
                IF o[1] # "returned"
                THEN \* except ValueError as e
                     /\ ShowError(o[2])
                     /\ UNCHANGED <<output_text, strength_text>>
                ELSE IF count = 1
                THEN /\ output_text' = <<o[3]>>
                     /\ strength_text' = ClassFlags(o[3]) @@
                                            [is_strong |-> IsStrong(o[3])]
                     /\ UNCHANGED messagebox
                ELSE /\ output_text' = NumberedLines(o[3])
                     /\ strength_text' = <<>>
                     /\ UNCHANGED messagebox

----------------------------------------------------------------------------
(* Specifications *)

\* the state in which the method of a call c is about to run
Called(c) ==
  /\ character_sets = InitialCharacterSets
  /\ calls_made = 0
  /\ output_text = <<>>
  /\ strength_text = <<>>
  /\ messagebox = <<>>
  /\ call = c
  /\ pc = "ready"
  /\ outcome = "none"
  /\ message = ""
  /\ ret = <<>>
  /\ remaining_length = 0

InitPassword == \E c \in PasswordCalls : Called(c)

NextPassword ==
  \/ GeneratePassword

\* calls of generate_password
SpecPassword == InitPassword /\ [][NextPassword]_vars

InitMemorable == \E c \in MemorableCalls : Called(c)

NextMemorable ==
  \/ GenerateMemorablePassword

\* calls of generate_memorable_password
SpecMemorable == InitMemorable /\ [][NextMemorable]_vars

InitPattern == \E c \in PatternCalls : Called(c)

NextPattern ==
  \/ GeneratePatternPassword

\* calls of generate_pattern_password
SpecPattern == InitPattern /\ [][NextPattern]_vars

InitPassphrase == \E c \in PassphraseCalls : Called(c)

NextPassphrase ==
  \/ GeneratePassphrase

\* calls of generate_passphrase
SpecPassphrase == InitPassphrase /\ [][NextPassphrase]_vars

InitMultiple == \E c \in MultiCalls : Called(c)

NextMultiple ==
  \/ GenerateMultiplePasswords

\* calls of generate_multiple_passwords
SpecMultiple == InitMultiple /\ [][NextMultiple]_vars

InitStrength == \E c \in StrengthCalls : Called(c)

NextStrength ==
  \/ GetPasswordStrength
  \/ EstimateStrength

\* calls of the strength estimators
SpecStrength == InitStrength /\ [][NextStrength]_vars

InitGui == \E c \in GuiCalls : Called(c)

NextGui ==
  \/ GuiGeneratePassword

\* clicks on the Generate button
SpecGui == InitGui /\ [][NextGui]_vars

\* the calls made on a shared generator: some of every generation method
SharedCalls ==
  {[BlankCall EXCEPT !.op = "generate_password", !.length = l, !.options = o] :
     l \in {MIN_LENGTH - 1, LongLength}, o \in MultiOptions} \cup
  {c \in MultiCalls : c.count \in {0, 1}} \cup
  {c \in PatternCalls : Len(c.pattern) = 1 \/ c.pattern = DefaultPattern} \cup
  {c \in MemorableCalls : c.word_count <= 1} \cup
  {c \in PassphraseCalls :
     /\ ~c.word_list.given /\ c.separator = <<"-">>
     /\ (c.word_count <= 1 \/ c.word_count > Len(default_word_list))}

\* the next call on the same generator object: the arguments are new, the
\* object is the one the earlier calls used
NextCall ==
  /\ pc = "done"
  /\ calls_made < MaxCalls
  /\ calls_made' = calls_made + 1
  /\ \E c \in SharedCalls : call' = c
  /\ pc' = "ready"
  /\ outcome' = "none"
  /\ message' = ""
  /\ ret' = <<>>
  /\ remaining_length' = 0
  /\ UNCHANGED <<character_sets, gui>>

InitShared == \E c \in SharedCalls : Called(c)

NextShared ==
  \/ GeneratePassword
  \/ GenerateMultiplePasswords
  \/ GeneratePatternPassword
  \/ GenerateMemorablePassword
  \/ GeneratePassphrase
  \/ NextCall

\* a sequence of generation calls on one generator
SpecShared == InitShared /\ [][NextShared]_vars

\* a call of any method
Init ==
  \/ InitPassword
  \/ InitMemorable
  \/ InitPattern
  \/ InitPassphrase
  \/ InitMultiple
  \/ InitStrength
  \/ InitGui

Next ==
  \/ GeneratePassword
  \/ GenerateMemorablePassword
  \/ GeneratePatternPassword
  \/ GeneratePassphrase
  \/ GenerateMultiplePasswords
  \/ GetPasswordStrength
  \/ EstimateStrength
  \/ GuiGeneratePassword

Spec == Init /\ [][Next]_vars

----------------------------------------------------------------------------
(* Properties of generate_password *)

PasswordDone == pc = "done" /\ call.op = "generate_password"

PasswordReturned == PasswordDone /\ outcome = "returned"

\* the flags of the call, as its caller means them: an absent key is on
FlagOn(c) == c \notin DOMAIN call.options \/ call.options[c]

EnabledCategories == {c \in CategorySet : FlagOn(c)}

LengthErrorRaised ==
  PasswordDone /\ outcome = "ValueError" /\ message = LengthErrorMessage

PoolErrorRaised ==
  PasswordDone /\ outcome = "ValueError" /\ message = PoolErrorMessage

\* C1: every password generate_password returns has exactly `length`
\* characters, whatever the draws and the shuffle were.
C1_LengthIsExact == PasswordReturned => Len(ret) = call.length

\* a returned password with fill characters and every category guaranteed
C1_Witness ==
  /\ PasswordReturned
  /\ Cardinality(EnabledCategories) = 3
  /\ remaining_length > 0
  /\ Len(ret) = MaxLen

\* C2: a returned password holds at least one character of the alphabet of
\* every category enabled in the call.
C2_EveryEnabledCategoryPresent ==
  PasswordReturned =>
    \A c \in EnabledCategories :
      \E i \in 1 .. Len(ret) : ret[i] \in Range(character_sets[c])

\* all four categories enabled, and the guaranteed lowercase character is no
\* longer in the first position
C2_Witness ==
  /\ PasswordReturned
  /\ EnabledCategories = CategorySet
  /\ ret[1] \notin Range(character_sets.lowercase)

\* C3: every character of a returned password belongs to the alphabet of an
\* enabled category, and none to the alphabet of a disabled one.
C3_OnlyEnabledCharacters ==
  PasswordReturned =>
    \A i \in 1 .. Len(ret) :
      /\ \E c \in EnabledCategories : ret[i] \in Range(character_sets[c])
      /\ \A c \in CategorySet \ EnabledCategories :
           ret[i] \notin Range(character_sets[c])

\* a password of a call with disabled categories, with fill characters
C3_Witness ==
  /\ PasswordReturned
  /\ Cardinality(EnabledCategories) = 2
  /\ remaining_length >= 2

\* C4 as stated: the character-set error is reported exactly when all four
\* categories are disabled, for every length.
C4_PoolErrorIffNothingEnabled ==
  PasswordDone => (PoolErrorRaised <=> EnabledCategories = {})

\* C4 amended: the character-set error is reported exactly when all four
\* categories are disabled and the length is at least 4; a shorter length is
\* reported first, as the length error.
C4_PoolErrorIffNothingEnabledAndLongEnough ==
  PasswordDone =>
    (PoolErrorRaised <=>
       (EnabledCategories = {} /\ call.length >= MIN_LENGTH))

\* nothing enabled and the character-set error reported
C4_Witness ==
  /\ PoolErrorRaised
  /\ EnabledCategories = {}
  /\ call.length >= MIN_LENGTH

\* C5 as stated: the length error is reported exactly when the length is
\* below the number of enabled categories or outside the bounds, whose upper
\* end is 128 (the lower end is taken as the 4 the code enforces).
C5_LengthErrorIffOutOfBounds ==
  PasswordDone =>
    (LengthErrorRaised <=>
       \/ call.length < Cardinality(EnabledCategories)
       \/ call.length < MIN_LENGTH
       \/ call.length > MAX_LENGTH)

\* C6: a length below the number of enabled categories is answered by the
\* length error and no password, and in every call that returns a password
\* the number of fill positions is not negative.
C6_ShortLengthRejected ==
  /\ (PasswordDone /\ call.length < Cardinality(EnabledCategories))
       => (LengthErrorRaised /\ ret = <<>>)
  /\ PasswordReturned =>
       /\ remaining_length >= 0
       /\ remaining_length = call.length - Cardinality(EnabledCategories)

\* a length of 3 with four categories enabled, rejected
C6_Witness ==
  /\ LengthErrorRaised
  /\ call.length = MIN_LENGTH - 1
  /\ Cardinality(EnabledCategories) > call.length

----------------------------------------------------------------------------
(* Properties of generate_passphrase *)

PassphraseDone == pc = "done" /\ call.op = "generate_passphrase"

\* the list the words are taken from: the custom one, or the default
WordListUsed ==
  IF call.word_list.given THEN call.word_list.items ELSE default_word_list

\* s is k entries of list, from k different positions outside `used`, with
\* sep between them
RECURSIVE PhraseMatches(_, _, _, _, _)
PhraseMatches(s, list, sep, used, k) ==
  IF k = 0 THEN s = <<>>
  ELSE \E i \in (1 .. Len(list)) \ used :
         /\ IsPrefix(list[i], s)
         /\ LET rest == Drop(s, Len(list[i]))
            IN  IF k = 1 THEN rest = <<>>
                ELSE /\ IsPrefix(sep, rest)
                     /\ PhraseMatches(Drop(rest, Len(sep)), list, sep,
                                      used \cup {i}, k - 1)

\* C7: a word_count above the size of the word list (custom or default) is
\* always answered by the word-list error, and nothing is returned.
C7_TooManyWordsRejected ==
  (PassphraseDone /\ call.word_count > Len(WordListUsed)) =>
    /\ outcome = "ValueError"
    /\ message = WordsErrorMessage
    /\ ret = <<>>

\* one word more than a custom list holds, rejected
C7_Witness ==
  /\ PassphraseDone
  /\ call.word_list.given
  /\ Len(call.word_list.items) >= 1
  /\ call.word_count = Len(call.word_list.items) + 1
  /\ outcome = "ValueError"
  /\ message = WordsErrorMessage

\* C8: a word_count of at most the size of the word list returns exactly
\* word_count entries of the list, from pairwise different positions, joined
\* by the separator.
C8_SampledWithoutReplacement ==
  (/\ PassphraseDone
   /\ 0 <= call.word_count
   /\ call.word_count <= Len(WordListUsed)) =>
    /\ outcome = "returned"
    /\ PhraseMatches(ret, WordListUsed, call.separator, {}, call.word_count)

\* the boundary: a custom list of different words, all of them used
C8_Witness ==
  /\ PassphraseDone
  /\ outcome = "returned"
  /\ call.word_list.given
  /\ Len(call.word_list.items) >= 2
  /\ call.word_count = Len(call.word_list.items)
  /\ Cardinality(Range(call.word_list.items)) = Len(call.word_list.items)

----------------------------------------------------------------------------
(* Properties of generate_pattern_password *)

PatternDone == pc = "done" /\ call.op = "generate_pattern_password"

\* the alphabet a pattern character selects; every character for one that
\* is no code
PatternAlphabet(code) ==
  IF code = "l" THEN Range(ascii_lowercase)
  ELSE IF code = "u" THEN Range(ascii_uppercase)
  ELSE IF code = "d" THEN Range(digits)
  ELSE IF code = "s" THEN Range(punctuation)
  ELSE Range(ascii_lowercase) \cup Range(ascii_uppercase) \cup
       Range(digits) \cup Range(punctuation)

\* C9: generate_pattern_password returns a string as long as the pattern
\* whose character at each position is of the alphabet the pattern's
\* character at that position selects.
C9_PatternFollowed ==
  PatternDone =>
    /\ outcome = "returned"
    /\ Len(ret) = Len(call.pattern)
    /\ \A i \in 1 .. Len(ret) : ret[i] \in PatternAlphabet(call.pattern[i])

----------------------------------------------------------------------------
(* Properties of generate_memorable_password *)

MemorableDone == pc = "done" /\ call.op = "generate_memorable_password"

SyllableSet == Range(syllables)

SyllableLengths == {Len(syllables[j]) : j \in DOMAIN syllables}

\* s is n syllables of the table, one after the other
RECURSIVE SyllablesMatch(_, _)
SyllablesMatch(s, n) ==
  IF n = 0 THEN s = <<>>
  ELSE \E len \in SyllableLengths :
         /\ len <= Len(s)
         /\ SubSeq(s, 1, len) \in SyllableSet
         /\ SyllablesMatch(Drop(s, len), n - 1)

\* w is a word segment: 2 or 3 syllables, with the first letter in upper
\* case and the rest in lower case when cap, and all in lower case otherwise
IsSegment(w, cap) ==
  IF cap
  THEN /\ w # <<>>
       /\ w[1] \in Range(ascii_uppercase)
       /\ \A i \in 2 .. Len(w) : w[i] \in Range(ascii_lowercase)
       /\ LET lower == [i \in 1 .. Len(w) |-> Lower(w[i])]
          IN  SyllablesMatch(lower, 2) \/ SyllablesMatch(lower, 3)
  ELSE /\ \A i \in 1 .. Len(w) : w[i] \in Range(ascii_lowercase)
       /\ (SyllablesMatch(w, 2) \/ SyllablesMatch(w, 3))

\* s is the two decimal digits of an integer in 10..99
IsSuffix(s) ==
  \E n \in SuffixOffset .. (SuffixOffset + SuffixBelow - 1) :
    s = <<digits[(n \div 10) + 1], digits[(n % 10) + 1]>>

\* s is k word segments, each followed by sep, and then the suffix
RECURSIVE MemorableMatches(_, _, _, _)
MemorableMatches(s, sep, cap, k) ==
  IF k = 0 THEN IsSuffix(s)
  ELSE \E n \in 1 .. Len(s) :
         /\ IsSegment(SubSeq(s, 1, n), cap)
         /\ IsPrefix(sep, Drop(s, n))
         /\ MemorableMatches(Drop(s, n + Len(sep)), sep, cap, k - 1)

\* C10: generate_memorable_password returns word_count word segments and
\* then a numeric suffix, joined by the separator; each segment is 2 or 3
\* syllables of the table, capitalized exactly when capitalize is true, and
\* the suffix is the two digits of an integer in 10..99.
C10_SegmentsThenSuffix ==
  MemorableDone =>
    /\ outcome = "returned"
    /\ MemorableMatches(ret, call.separator, call.capitalize, call.word_count)

\* a capitalized segment with a three-letter syllable, the separator and
\* the suffix
C10_Witness ==
  /\ MemorableDone
  /\ outcome = "returned"
  /\ call.word_count >= 1
  /\ call.capitalize
  /\ call.separator = <<"-">>
  /\ ret[1] = "T"
  /\ Len(ret) >= 9

----------------------------------------------------------------------------
(* Properties of the strength estimators *)

EstimateDone == pc = "done" /\ call.op = "estimate"

StrengthDone == pc = "done" /\ call.op = "get_password_strength"

\* the rows of the grading table, top row first
StrengthTable ==
  << [length |-> 20, classes |-> 4, label |-> "Very Strong"],
     [length |-> 16, classes |-> 3, label |-> "Strong"],
     [length |-> 12, classes |-> 2, label |-> "Medium"],
     [length |-> 8,  classes |-> 1, label |-> "Weak"] >>

\* which of lowercase, uppercase, digit, symbol occur in s
ClassesOccurring(s) ==
  {c \in CategorySet :
     \E i \in DOMAIN s :
       \/ c = "lowercase" /\ IsLower(s[i])
       \/ c = "uppercase" /\ IsUpper(s[i])
       \/ c = "digits" /\ IsDigit(s[i])
       \/ c = "symbols" /\ IsSymbol(s[i])}

\* the rows of the table that s matches
MatchingRows(s) ==
  {r \in DOMAIN StrengthTable :
     /\ Len(s) >= StrengthTable[r].length
     /\ Cardinality(ClassesOccurring(s)) >= StrengthTable[r].classes}

\* the label of the first matching row, "Very Weak" when no row matches
FirstMatchingLabel(s) ==
  IF MatchingRows(s) = {} THEN "Very Weak"
  ELSE StrengthTable[CHOOSE r \in MatchingRows(s) :
                       \A q \in MatchingRows(s) : r <= q].label

\* the labels the specification's examples give
ExampleLabel(s) ==
  CASE s = <<"a", "b", "c">> -> "Very Weak"
    [] Len(s) = 11 /\ s \in ExamplePasswords -> "Weak"
    [] Len(s) = 13 /\ s \in ExamplePasswords -> "Medium"
    [] OTHER -> FirstMatchingLabel(s)

\* C11: the graded estimator accepts every string, the empty one included,
\* without an error, and returns the label of the first row of the table,
\* read from the top, that the string's length and its number of occurring
\* character classes match ("Very Weak" when none matches); the examples of
\* the specification get the labels it gives them.
C11_FirstMatchingRowLabel ==
  EstimateDone =>
    /\ outcome = "returned"
    /\ ret = FirstMatchingLabel(call.password)
    /\ ret = ExampleLabel(call.password)

\* a 16-character string of three classes was graded Strong: the top row was
\* tried and failed, the second row matched although the lower rows match too
C11_Witness ==
  /\ EstimateDone
  /\ Len(call.password) = 16
  /\ Cardinality(ClassesOccurring(call.password)) = 3
  /\ ret = "Strong"

StrongLabels == {"Strong", "Very Strong"}

\* C12 as stated: for every password, is_strong holds if and only if the
\* graded label of the same password is Strong or Very Strong.
C12_StrongIffGradedStrong ==
  StrengthDone =>
    (ret.is_strong <=> GradedLabel(call.password) \in StrongLabels)

\* C12, amended: the two verdicts agree only at the ends.  A password that
\* is_strong is graded at least Medium, and Strong or Very Strong once it has
\* 16 characters; a password graded Very Strong is_strong.  (A password of
\* 12..15 characters with lowercase, uppercase and digit is_strong but graded
\* Medium, and one of 16 characters and three classes that lacks lowercase,
\* uppercase or digit is graded Strong but is not is_strong.)
C12_StrongAgreesAtTheEnds ==
  StrengthDone =>
    LET label == GradedLabel(call.password)
    IN  /\ ret.is_strong => label \in StrongLabels \cup {"Medium"}
        /\ ret.is_strong /\ Len(call.password) >= 16 => label \in StrongLabels
        /\ label = "Very Strong" => ret.is_strong

\* a 16-character password of lowercase, uppercase and digits: is_strong, and
\* graded Strong
C12_Witness ==
  /\ StrengthDone
  /\ ret.is_strong
  /\ Len(call.password) = 16
  /\ ~ret.has_symbols
  /\ GradedLabel(call.password) = "Strong"

----------------------------------------------------------------------------
(* Properties of generate_multiple_passwords *)

MultipleDone == pc = "done" /\ call.op = "generate_multiple_passwords"

\* a length below the minimum, or no category enabled
ConfigurationInvalid == call.length < MIN_LENGTH \/ EnabledCategories = {}

\* w has `length` characters, one at least of every enabled category, and
\* none outside the enabled categories
SinglePasswordGuarantees(w) ==
  LET chars == Range(w)
      allowed == UNION {Range(character_sets[c]) : c \in EnabledCategories}
      forbidden ==
        UNION {Range(character_sets[c]) : c \in CategorySet \ EnabledCategories}
  IN  /\ Len(w) = call.length
      /\ \A c \in EnabledCategories : chars \cap Range(character_sets[c]) # {}
      /\ chars \subseteq allowed
      /\ chars \cap forbidden = {}

\* a list of exactly `count` passwords (none when count <= 0) was returned,
\* each with the guarantees of a single password
ListOfCountReturned ==
  /\ outcome = "returned"
  /\ Len(ret) = (IF call.count > 0 THEN call.count ELSE 0)
  /\ \A i \in 1 .. Len(ret) : SinglePasswordGuarantees(ret[i])

\* C13 as stated: generate_multiple_passwords returns a list of exactly
\* `count` passwords (the empty list when count <= 0), each with the length
\* and the coverage and pool-membership guarantees of a single password; if
\* the configuration is invalid it raises and returns no list.
C13_ListOfCountOrRaises ==
  MultipleDone =>
    IF ConfigurationInvalid
    THEN outcome = "ValueError" /\ ret = <<>>
    ELSE ListOfCountReturned

\* C13, amended: an invalid configuration raises only when count >= 1; with
\* count <= 0 generate_password is never called and the empty list is
\* returned whatever the configuration is.  Otherwise the list has exactly
\* `count` passwords, each with the guarantees of a single password.
C13_ListOfCountOrRaisesWhenCalled ==
  MultipleDone =>
    IF ConfigurationInvalid /\ call.count >= 1
    THEN outcome = "ValueError" /\ ret = <<>>
    ELSE ListOfCountReturned

\* a list of MaxCount passwords of a selection with disabled categories, not
\* all equal
C13_Witness ==
  /\ MultipleDone
  /\ outcome = "returned"
  /\ call.count = MaxCount
  /\ Len(ret) = MaxCount
  /\ EnabledCategories = {"lowercase", "digits"}
  /\ ret[1] # ret[Len(ret)]

----------------------------------------------------------------------------
(* Properties of calls on a shared generator *)

----------------------------------------------------------------------------
(* Properties of the window's generate action *)

GuiDone == pc = "done" /\ call.op = "gui_generate_password"

\* the line is "<k>. " followed by a password of n characters
IsNumberedPassword(line, k, n) ==
  /\ IsPrefix(Str(k) \o <<".", " ">>, line)
  /\ Len(line) = Len(Str(k)) + 2 + n

\* C15: when the generate action runs with a length L, a number to generate
\* N > 1 and at least one character type ticked, the output area shows
\* exactly N passwords, each of exactly L characters, and no error dialog.
C15_ShowsCountPasswordsOfLength ==
  GuiDone /\ call.count > 1 /\ EnabledCategories # {} =>
    /\ messagebox = <<>>
    /\ Len(output_text) = call.count
    /\ \A k \in 1 .. Len(output_text) :
         IsNumberedPassword(output_text[k], k, call.length)

====
